---- MODULE Spec2Model ----
(***************************************************************************)
(* Employee Management API (FastAPI + SQLModel + PostgreSQL).              *)
(*                                                                         *)
(* The state is the two database tables (user, employee), the clock, the   *)
(* bearer tokens issued so far, the position of every request handler that *)
(* is between two awaits of a two-phase write (pre-check, then commit),    *)
(* and the response of the request that completed last.                    *)
(*                                                                         *)
(* Text values are sequences of one-character strings, dates are day       *)
(* numbers, the clock `now` gives both date.today() and the token clock.   *)
(***************************************************************************)
EXTENDS Integers, Sequences, FiniteSets, TLC

VARIABLES started, now, users, employees, tokens, pc, arg, last

vars == <<started, now, users, employees, tokens, pc, arg, last>>

---------------------------------------------------------------------------
(* Bounds of the model *)

\* concurrent request handlers, each with its own database session
NumClients == 2
\* the clock runs over 0..MaxNow
MaxNow == 2
\* tokens outstanding at one time (a client discards one to log in again)
MaxTokens == 1
\* offsets and limits of a list request range over 0..MaxPage
MaxPage == 2

Clients == 1..NumClients

\* the business identifiers requests name (0 is below the minimum)
EmpIds == {0, 1, 2}
ValidEmpIds == {e \in EmpIds : e >= 1}

---------------------------------------------------------------------------
(* Users, passwords, tokens *)

Usernames == {"admin", "bob"}
Passwords == {"adminpassword", "hunter2"}
Salts == {"s1", "s2"}

\* security.get_password_hash: a salted one-way hash (the salt is the caller's
\* nondeterministic choice)
get_password_hash(password, salt) ==
    [alg |-> "bcrypt", salt |-> salt, digest |-> <<salt, password>>]

\* security.verify_password: re-hash the plaintext with the stored salt
verify_password(plain, hashed) ==
    hashed.alg = "bcrypt" /\ hashed.digest = <<hashed.salt, plain>>

NoHash == [alg |-> "none", salt |-> "", digest |-> <<"", "">>]
NoUser == [id |-> 0, username |-> "", hashed_password |-> NoHash, is_admin |-> FALSE]

\* the server-held signing secret and the token lifetime (in clock ticks)
SECRET_KEY == "server-secret"
ACCESS_TOKEN_EXPIRE == 1

\* security.create_access_token: subject + expiry, signed with the secret
create_access_token(data, t) ==
    [sub |-> data.sub, exp |-> t + ACCESS_TOKEN_EXPIRE, sig |-> SECRET_KEY]

\* what a request can carry in its Authorization header
NoToken == [sub |-> "", exp |-> 0, sig |-> ""]
ForgedTokens == {[sub |-> u, exp |-> MaxNow + ACCESS_TOKEN_EXPIRE, sig |-> "forged"] : u \in {"admin"}}
Credentials == {NoToken} \cup ForgedTokens \cup tokens

\* Token Service verify: the subject, or an AuthError kind
decode_token(cred, t) ==
    IF cred = NoToken THEN [ok |-> FALSE, sub |-> "", err |-> "Missing"]
    ELSE IF cred.sig # SECRET_KEY THEN [ok |-> FALSE, sub |-> "", err |-> "SignatureInvalid"]
    ELSE IF t > cred.exp THEN [ok |-> FALSE, sub |-> "", err |-> "Expired"]
    ELSE [ok |-> TRUE, sub |-> cred.sub, err |-> ""]

---------------------------------------------------------------------------
(* User CRUD *)

get_user_by_username(db_users, username) ==
    IF \E u \in db_users : u.username = username
    THEN CHOOSE u \in db_users : u.username = username
    ELSE NoUser

\* the autoincrement primary key of the user table
next_user_id(db_users) == Cardinality(db_users) + 1

\* a registration that copies create_admin_user
new_user_as_admin(db_users, user, salt) ==
    [id |-> next_user_id(db_users), username |-> user.username,
     hashed_password |-> get_password_hash(user.password, salt), is_admin |-> TRUE]

\* the row crud.create_user adds: registration never makes an admin
new_user(db_users, user, salt) ==
    [id |-> next_user_id(db_users), username |-> user.username,
     hashed_password |-> get_password_hash(user.password, salt), is_admin |-> FALSE]

\* the row crud.create_admin_user adds
new_admin_user(db_users, user, salt) ==
    [id |-> next_user_id(db_users), username |-> user.username,
     hashed_password |-> get_password_hash(user.password, salt), is_admin |-> TRUE]

\* User.username is unique=True: the INSERT violates the constraint
username_taken(db_users, username) == \E u \in db_users : u.username = username

---------------------------------------------------------------------------
(* Access Control Guard *)

\* requireUser: 401 without a valid token or when the subject is gone
get_current_user(cred, db_users, t) ==
    LET d == decode_token(cred, t) IN
    IF cred = NoToken
    THEN [status |-> 401, detail |-> "Not authenticated", user |-> NoUser]
    ELSE IF ~d.ok \/ get_user_by_username(db_users, d.sub) = NoUser
    THEN [status |-> 401, detail |-> "Could not validate credentials", user |-> NoUser]
    ELSE [status |-> 200, detail |-> "", user |-> get_user_by_username(db_users, d.sub)]

\* requireAdmin: requireUser, then 403 unless is_admin
get_current_admin_user(cred, db_users, t) ==
    LET g == get_current_user(cred, db_users, t) IN
    IF g.status # 200 THEN g
    ELSE IF ~g.user.is_admin
    THEN [status |-> 403, detail |-> "The user does not have administrative privileges",
          user |-> g.user]
    ELSE g

---------------------------------------------------------------------------
(* Employee payloads and validation (schemas.py) *)

Fields == {"emp_id", "emp_name", "city", "country", "emp_dob"}
TextFields == {"emp_name", "city", "country"}

\* a JSON value of a request body: an integer, a text, an ISO date string
\* (its day number), a string that is no date, or null; a field that is not
\* in the payload's DOMAIN was not sent
JInt(n) == [t |-> "int", v |-> n]
JText(s) == [t |-> "text", v |-> s]
JDate(d) == [t |-> "date", v |-> d]
JBadDate == [t |-> "baddate", v |-> 0]
JNull == [t |-> "null", v |-> 0]

\* date.today()
today(t) == t

\* schemas.validate_dob_not_in_future (mode='before'): the error it raises
validate_dob_not_in_future(v, t) ==
    IF v.t = "null" THEN {}
    ELSE IF v.t = "baddate" THEN {<<"emp_dob", "Invalid date format">>}
    ELSE IF v.t = "date" /\ v.v > today(t)
         THEN {<<"emp_dob", "Date of birth cannot be in the future">>}
    ELSE {}

\* the type a field's annotation asks for
field_type(f) == IF f = "emp_id" THEN "int" ELSE IF f = "emp_dob" THEN "date" ELSE "text"

\* emp_id: Field(..., ge=1)
emp_id_ge_1(v) ==
    IF v.t = "int" /\ v.v < 1
    THEN {<<"emp_id", "Input should be greater than or equal to 1">>}
    ELSE {}

\* text fields of EmployeeBase are Field(...): required, with no length rule
text_field_errors(f, v) == {}

\* schemas.EmployeeBase / EmployeeCreate: the per-field error list
EmployeeCreate_errors(p, t) ==
    UNION {
      IF f \notin DOMAIN p THEN {<<f, "Field required">>}
      ELSE IF f = "emp_dob" /\ validate_dob_not_in_future(p[f], t) # {}
           THEN validate_dob_not_in_future(p[f], t)
      ELSE IF p[f].t # field_type(f) THEN {<<f, "Input should be a valid value">>}
      ELSE IF f = "emp_id" THEN emp_id_ge_1(p[f])
      ELSE IF f \in TextFields THEN text_field_errors(f, p[f])
      ELSE {}
      : f \in Fields }

\* schemas.EmployeeUpdate: every field Optional (absent or null passes)
EmployeeUpdate_errors(p, t) ==
    UNION {
      IF p[f].t = "null" THEN {}
      ELSE IF f = "emp_dob" /\ validate_dob_not_in_future(p[f], t) # {}
           THEN validate_dob_not_in_future(p[f], t)
      ELSE IF p[f].t # field_type(f) THEN {<<f, "Input should be a valid value">>}
      ELSE IF f = "emp_id" THEN emp_id_ge_1(p[f])
      ELSE {}
      : f \in DOMAIN p }

---------------------------------------------------------------------------
(* Employee CRUD (crud.py) over the employee table *)

NoRow == [id |-> 0, emp_id |-> 0, emp_name |-> <<>>, city |-> <<>>, country |-> <<>>, emp_dob |-> 0]

\* crud.get_employee_by_emp_id: the first row with that business id
get_employee_by_emp_id(db, emp_id) ==
    IF \E r \in db : r.emp_id = emp_id
    THEN CHOOSE r \in db : r.emp_id = emp_id
    ELSE NoRow

\* Employee.id default_factory=uuid.uuid4: an identifier no row has
fresh_id(db) == CHOOSE i \in 1..(Cardinality(db) + 1) : \A r \in db : r.id # i

\* Employee.model_validate(employee): the row for a validated create payload
new_employee(db, p) ==
    [id |-> fresh_id(db), emp_id |-> p["emp_id"].v, emp_name |-> p["emp_name"].v,
     city |-> p["city"].v, country |-> p["country"].v, emp_dob |-> p["emp_dob"].v]

\* an employee table without the unique index on emp_id
no_unique_index(db, row) == FALSE

\* Employee.emp_id is unique=True: would storing `row` violate the constraint
emp_id_taken(db, row) == \E r \in db : r.emp_id = row.emp_id /\ r.id # row.id

\* employee_update.model_dump(exclude_unset=True): the fields that were sent
update_data(p) == p

\* an update that rebuilds the record from the payload: what was not sent
\* falls back to an empty value
apply_update_replacing(row, p) ==
    [f \in DOMAIN row |->
        IF f = "id" THEN row[f]
        ELSE IF f \in DOMAIN p /\ p[f].t # "null" THEN p[f].v
        ELSE NoRow[f]]

\* the setattr loop of crud.update_employee (a null value cannot be stored:
\* the commit rejects it, see update_violates)
apply_update(row, p) ==
    LET data == update_data(p) IN
    [f \in DOMAIN row |->
        IF f \in DOMAIN data /\ data[f].t # "null" THEN data[f].v ELSE row[f]]

\* the columns are NOT NULL and emp_id is unique: the UPDATE's commit fails
update_violates(db, row, p) ==
    \/ \E f \in DOMAIN update_data(p) : update_data(p)[f].t = "null"
    \/ emp_id_taken(db, apply_update(row, p))

---------------------------------------------------------------------------
(* Responses *)

NoArg == [kind |-> "none"]
NoPayload == <<>>
NoQuery == [offset |-> 0, limit |-> 0, city |-> <<>>, country |-> <<>>,
            sort_by |-> "", order |-> ""]

\* the response of the request that completed last, with what it was asked:
\* user is the user the guard resolved, stage the place the handler answered
\* from, body the records returned
NoResp ==
    [op |-> "none", status |-> 0, detail |-> "", errors |-> {}, user |-> NoUser,
     cred |-> NoToken, username |-> "", password |-> "", emp_id |-> 0,
     payload |-> NoPayload, query |-> NoQuery, stage |-> "", token |-> NoToken,
     body |-> <<>>]

AuthResp(op, status, detail, user, username, password, stage, token) ==
    [NoResp EXCEPT !.op = op, !.status = status, !.detail = detail, !.user = user,
                   !.username = username, !.password = password, !.stage = stage,
                   !.token = token]

EmpResp(op, cred, status, detail, user, emp_id, payload, stage, body) ==
    [NoResp EXCEPT !.op = op, !.cred = cred, !.status = status, !.detail = detail,
                   !.user = user, !.emp_id = emp_id, !.payload = payload, !.stage = stage,
                   !.body = body]

\* FastAPI's answer to a body that fails validation
Unprocessable(op, cred, user, emp_id, payload, errors) ==
    [EmpResp(op, cred, 422, "Unprocessable Entity", user, emp_id, payload, "validation", <<>>)
        EXCEPT !.errors = errors]

\* an exception no handler catches leaves the endpoint as 500
InternalServerError == [status |-> 500, detail |-> "Internal Server Error"]

---------------------------------------------------------------------------
Init ==
    /\ started = FALSE
    /\ now = 0
    /\ users = {}
    /\ employees = {}
    /\ tokens = {}
    /\ pc = [c \in Clients |-> "idle"]
    /\ arg = [c \in Clients |-> NoArg]
    /\ last = NoResp

\* main.lifespan: create the tables, then the bootstrap admin unless it exists
lifespan ==
    /\ ~started
    /\ started' = TRUE
    /\ \E salt \in Salts :
         users' = IF get_user_by_username(users, "admin") = NoUser
                  THEN users \cup {new_admin_user(users,
                           [username |-> "admin", password |-> "adminpassword"], salt)}
                  ELSE users
    /\ UNCHANGED <<now, employees, tokens, pc, arg, last>>

\* the process stops: requests in flight are dropped, their sessions closed
\* (uncommitted work is rolled back); the database and issued tokens remain
shutdown ==
    /\ started
    /\ started' = FALSE
    /\ pc' = [c \in Clients |-> "idle"]
    /\ arg' = [c \in Clients |-> NoArg]
    /\ UNCHANGED <<now, users, employees, tokens, last>>

\* time passes
Tick ==
    /\ now < MaxNow
    /\ now' = now + 1
    /\ UNCHANGED <<started, users, employees, tokens, pc, arg, last>>

\* a login that forgets to verify the password
login_rejects_unknown_only(user, password) == user = NoUser

\* the login handler's credential check
login_rejects(user, password) ==
    user = NoUser \/ ~verify_password(password, user.hashed_password)

\* the claims the login handler puts in the token
login_token_data(user) == [sub |-> user.username]

\* auth.login_for_access_token: POST /auth/token
login_for_access_token(c, username, password) ==
    /\ started /\ pc[c] = "idle"
    /\ LET user == get_user_by_username(users, username) IN
       IF login_rejects(user, password)
       THEN /\ last' = AuthResp("login", 401, "Incorrect username or password",
                                NoUser, username, password, "", NoToken)
            /\ UNCHANGED tokens
       ELSE LET access_token == create_access_token(login_token_data(user), now) IN
            /\ last' = AuthResp("login", 200, "", user, username, password, "", access_token)
            /\ (access_token \in tokens \/ Cardinality(tokens) < MaxTokens)
            /\ tokens' = tokens \cup {access_token}
    /\ UNCHANGED <<started, now, users, employees, pc, arg>>

\* auth.register_user -> crud.create_user, up to its commit: the pre-check
register_user(c, username, password) ==
    /\ started /\ pc[c] = "idle"
    /\ IF get_user_by_username(users, username) # NoUser
       THEN /\ last' = AuthResp("register", 409, "Username already exists",
                                NoUser, username, password, "check", NoToken)
            /\ UNCHANGED <<pc, arg>>
       ELSE /\ pc' = [pc EXCEPT ![c] = "register_commit"]
            /\ arg' = [arg EXCEPT ![c] = [kind |-> "register",
                           user |-> [username |-> username, password |-> password]]]
            /\ UNCHANGED last
    /\ UNCHANGED <<started, now, users, employees, tokens>>

\* how create_user answers an IntegrityError raised by its commit: it has no
\* handler, so the error leaves the endpoint as a generic server failure
create_user_on_integrity_error == InternalServerError

\* crud.create_user from db.add to the return: INSERT and commit
create_user_commit(c) ==
    /\ started /\ pc[c] = "register_commit"
    /\ LET user == arg[c].user IN
       IF username_taken(users, user.username)
       THEN /\ last' = AuthResp("register", create_user_on_integrity_error.status,
                                create_user_on_integrity_error.detail,
                                NoUser, user.username, user.password, "commit", NoToken)
            /\ UNCHANGED users
       ELSE \E salt \in Salts :
            /\ users' = users \cup {new_user(users, user, salt)}
            /\ last' = AuthResp("register", 201, "", new_user(users, user, salt),
                                user.username, user.password, "commit", NoToken)
    /\ pc' = [pc EXCEPT ![c] = "idle"]
    /\ arg' = [arg EXCEPT ![c] = NoArg]
    /\ UNCHANGED <<started, now, employees, tokens>>

---------------------------------------------------------------------------
(* Employee endpoints (main.py) *)

\* an endpoint that asks only for a logged-in user
any_user_guard(cred, db_users, t) == get_current_user(cred, db_users, t)

\* the dependency each endpoint declares for the caller
create_employee_guard(cred, db_users, t) == get_current_admin_user(cred, db_users, t)
update_employee_guard(cred, db_users, t) == get_current_admin_user(cred, db_users, t)
delete_employee_guard(cred, db_users, t) == get_current_admin_user(cred, db_users, t)
get_employee_guard(cred, db_users, t) == get_current_user(cred, db_users, t)

\* the business id a create payload names (0 when it names none)
payload_emp_id(p) ==
    IF "emp_id" \in DOMAIN p /\ p["emp_id"].t = "int" THEN p["emp_id"].v ELSE 0

\* create_employee without its except clause: the IntegrityError escapes
create_employee_without_handler == InternalServerError

\* how create_employee answers an IntegrityError raised by its commit:
\* rollback, then Conflict
create_employee_on_integrity_error ==
    [status |-> 409,
     detail |-> "Conflict: A race condition occurred or emp_id was just created."]

\* POST /employees/ up to the commit of crud.create_employee: the guard, the
\* validation of the body, the pre-check on emp_id
create_employee_endpoint(c, cred, p) ==
    /\ started /\ pc[c] = "idle"
    /\ LET g == create_employee_guard(cred, users, now)
           errors == EmployeeCreate_errors(p, now)
       IN
       IF g.status # 200
       THEN /\ last' = EmpResp("create", cred, g.status, g.detail, g.user, payload_emp_id(p),
                               p, "guard", <<>>)
            /\ UNCHANGED <<pc, arg>>
       ELSE IF errors # {}
       THEN /\ last' = Unprocessable("create", cred, g.user, payload_emp_id(p), p, errors)
            /\ UNCHANGED <<pc, arg>>
       ELSE IF get_employee_by_emp_id(employees, p["emp_id"].v) # NoRow
       THEN /\ last' = EmpResp("create", cred, 409, "Employee business ID already exists",
                               g.user, p["emp_id"].v, p, "check", <<>>)
            /\ UNCHANGED <<pc, arg>>
       ELSE /\ pc' = [pc EXCEPT ![c] = "create_commit"]
            /\ arg' = [arg EXCEPT ![c] = [kind |-> "create", cred |-> cred,
                                          employee |-> p, user |-> g.user]]
            /\ UNCHANGED last
    /\ UNCHANGED <<started, now, users, employees, tokens>>

\* the rows the sessions of updates in flight have loaded
loaded_rows == {arg[c].db_employee : c \in {d \in Clients : pc[d] = "update_commit"}}

\* crud.create_employee from db.add to the return: INSERT, commit, refresh
\* (uuid4 gives the row a primary key no row has or had: none of the table,
\* none a session still holds)
create_employee_commit(c) ==
    /\ started /\ pc[c] = "create_commit"
    /\ LET p == arg[c].employee
           db_employee == new_employee(employees \cup loaded_rows, p)
       IN
       IF emp_id_taken(employees, db_employee)
       THEN /\ last' = EmpResp("create", arg[c].cred, create_employee_on_integrity_error.status,
                               create_employee_on_integrity_error.detail,
                               arg[c].user, db_employee.emp_id, p, "commit", <<>>)
            /\ UNCHANGED employees
       ELSE /\ employees' = employees \cup {db_employee}
            /\ last' = EmpResp("create", arg[c].cred, 201, "", arg[c].user, db_employee.emp_id, p,
                               "commit", <<db_employee>>)
    /\ pc' = [pc EXCEPT ![c] = "idle"]
    /\ arg' = [arg EXCEPT ![c] = NoArg]
    /\ UNCHANGED <<started, now, users, tokens>>

\* GET /employees/{emp_id}
get_employee_by_emp_id_endpoint(cred, emp_id) ==
    /\ started
    /\ LET g == get_employee_guard(cred, users, now)
           employee == get_employee_by_emp_id(employees, emp_id)
       IN
       last' = IF g.status # 200
               THEN EmpResp("get", cred, g.status, g.detail, g.user, emp_id, NoPayload, "guard", <<>>)
               ELSE IF employee = NoRow
               THEN EmpResp("get", cred, 404, "Employee not found", g.user, emp_id, NoPayload,
                            "handler", <<>>)
               ELSE EmpResp("get", cred, 200, "", g.user, emp_id, NoPayload, "handler", <<employee>>)
    /\ UNCHANGED <<started, now, users, employees, tokens, pc, arg>>

\* PATCH /employees/{emp_id}: crud.update_employee in one transaction
update_employee_by_emp_id_endpoint(cred, emp_id, p) ==
    /\ started
    /\ LET g == update_employee_guard(cred, users, now)
           errors == EmployeeUpdate_errors(p, now)
           db_employee == get_employee_by_emp_id(employees, emp_id)
       IN
       IF g.status # 200
       THEN /\ last' = EmpResp("update", cred, g.status, g.detail, g.user, emp_id, p, "guard", <<>>)
            /\ UNCHANGED employees
       ELSE IF errors # {}
       THEN /\ last' = Unprocessable("update", cred, g.user, emp_id, p, errors)
            /\ UNCHANGED employees
       ELSE IF db_employee = NoRow
       THEN /\ last' = EmpResp("update", cred, 404, "Employee not found", g.user, emp_id, p,
                               "handler", <<>>)
            /\ UNCHANGED employees
       ELSE IF update_violates(employees, db_employee, p)
       THEN /\ last' = EmpResp("update", cred, InternalServerError.status,
                               InternalServerError.detail, g.user, emp_id, p, "commit", <<>>)
            /\ UNCHANGED employees
       ELSE /\ employees' = (employees \ {db_employee}) \cup {apply_update(db_employee, p)}
            /\ last' = EmpResp("update", cred, 200, "", g.user, emp_id, p, "commit",
                               <<apply_update(db_employee, p)>>)
    /\ UNCHANGED <<started, now, users, tokens, pc, arg>>

\* a delete that is never flushed
delete_nothing(db, db_employee) == db

\* the rows crud.delete_employee leaves in the table
delete_row(db, db_employee) == db \ {db_employee}

\* DELETE /employees/{emp_id}: crud.delete_employee in one transaction
delete_employee_by_emp_id_endpoint(cred, emp_id) ==
    /\ started
    /\ LET g == delete_employee_guard(cred, users, now)
           db_employee == get_employee_by_emp_id(employees, emp_id)
       IN
       IF g.status # 200
       THEN /\ last' = EmpResp("delete", cred, g.status, g.detail, g.user, emp_id, NoPayload,
                               "guard", <<>>)
            /\ UNCHANGED employees
       ELSE IF db_employee = NoRow
       THEN /\ last' = EmpResp("delete", cred, 404, "Employee not found", g.user, emp_id,
                               NoPayload, "handler", <<>>)
            /\ UNCHANGED employees
       ELSE /\ employees' = delete_row(employees, db_employee)
            /\ last' = EmpResp("delete", cred, 204, "", g.user, emp_id, NoPayload, "commit", <<>>)
    /\ UNCHANGED <<started, now, users, tokens, pc, arg>>

---------------------------------------------------------------------------
(* The requests the model sends *)

An == <<"A", "n">>
Bo == <<"B", "o">>
Oslo == <<"O", "s">>
Rome == <<"R", "o">>
NO == <<"N", "O">>

\* a complete employee body for business id e, born on day d
Body(e, name, city, country, d) ==
    [f \in Fields |->
        IF f = "emp_id" THEN JInt(e)
        ELSE IF f = "emp_name" THEN JText(name)
        ELSE IF f = "city" THEN JText(city)
        ELSE IF f = "country" THEN JText(country)
        ELSE JDate(d)]

\* p without field f
Without(p, f) == [g \in DOMAIN p \ {f} |-> p[g]]

\* create bodies: valid ones, one with empty texts born today, one below the
\* minimum id (e = 0), one born tomorrow, one lacking a field, one with a null
CreatePayloads(t) ==
    { Body(e, An, Oslo, NO, t - 1) : e \in EmpIds }
    \cup { Body(1, <<>>, <<>>, <<>>, t),
           Body(1, An, Oslo, NO, t + 1),
           Without(Body(1, An, Oslo, NO, t - 1), "emp_name"),
           [Body(1, An, Oslo, NO, t - 1) EXCEPT !["city"] = JNull],
           [Body(1, An, Oslo, NO, t - 1) EXCEPT !["emp_dob"] = JBadDate] }

\* the payload that sets the fields of `fs` to the values of `p`
Only(p, fs) == [f \in fs |-> p[f]]

\* partial update bodies: one field, two fields, a new business id, nothing,
\* an explicit null, a birth date in the future
UpdatePayloads(t) ==
    { Only(Body(1, Bo, Rome, NO, t), {"city"}),
      Only(Body(1, Bo, Rome, NO, t), {"emp_name", "city"}),
      Only(Body(1, Bo, Rome, NO, t), {}),
      Only(Body(1, Bo, Rome, NO, t + 1), {"emp_dob"}),
      [Only(Body(1, Bo, Rome, NO, t), {"country"}) EXCEPT !["country"] = JNull] }
    \cup { Only(Body(e, Bo, Rome, NO, t), {"emp_id"}) : e \in EmpIds }


\* a client throws a token away
discard ==
    /\ \E t \in tokens : tokens' = tokens \ {t}
    /\ UNCHANGED <<started, now, users, employees, pc, arg, last>>

\* the state of a running service: the bootstrap admin and bob are
\* registered; an admin token issued at time 0 has expired, the admin and
\* bob hold tokens issued now
BootedUsers ==
    LET admin == new_admin_user({}, [username |-> "admin", password |-> "adminpassword"], "s1")
    IN {admin, new_user({admin}, [username |-> "bob", password |-> "hunter2"], "s2")}

InitRunning ==
    /\ started = TRUE
    /\ now = ACCESS_TOKEN_EXPIRE + 1
    /\ users = BootedUsers
    /\ employees = {}
    /\ tokens = { create_access_token([sub |-> "admin"], 0),
                  create_access_token([sub |-> "admin"], ACCESS_TOKEN_EXPIRE + 1),
                  create_access_token([sub |-> "bob"], ACCESS_TOKEN_EXPIRE + 1) }
    /\ pc = [c \in Clients |-> "idle"]
    /\ arg = [c \in Clients |-> NoArg]
    /\ last = NoResp

\* credentials the admin guard lets through
AdminCredentials == {cred \in Credentials : get_current_admin_user(cred, users, now).status = 200}

\* requests: every body with an admin's token, one body with every credential
OneCreate == Body(1, An, Oslo, NO, now - 1)
OneUpdate == Only(Body(1, Bo, Rome, NO, now), {"city"})

\* the handler the sequential specification runs its two-phase writes on
FirstClient == CHOOSE c \in Clients : \A d \in Clients : c <= d

NextEmployees ==
    \/ \E cred \in AdminCredentials, p \in CreatePayloads(now) :
           create_employee_endpoint(FirstClient, cred, p)
    \/ \E cred \in Credentials : create_employee_endpoint(FirstClient, cred, OneCreate)
    \/ create_employee_commit(FirstClient)
    \/ \E cred \in Credentials, e \in EmpIds : get_employee_by_emp_id_endpoint(cred, e)
    \/ \E cred \in AdminCredentials, e \in EmpIds, p \in UpdatePayloads(now) :
           update_employee_by_emp_id_endpoint(cred, e, p)
    \/ \E cred \in Credentials, e \in EmpIds :
           update_employee_by_emp_id_endpoint(cred, e, OneUpdate)
    \/ \E cred \in Credentials, e \in EmpIds : delete_employee_by_emp_id_endpoint(cred, e)

\* the employee API of a running service, one create in flight at a time
Spec == InitRunning /\ [][NextEmployees]_vars

\* create bodies of the race: the same person under every business id
RacePayloads == {Body(e, An, Oslo, NO, now - 1) : e \in ValidEmpIds}

NextRace ==
    \/ \E c \in Clients, cred \in AdminCredentials, p \in RacePayloads :
           create_employee_endpoint(c, cred, p)
    \/ \E c \in Clients : create_employee_commit(c)
    \/ \E cred \in AdminCredentials, e \in ValidEmpIds :
           delete_employee_by_emp_id_endpoint(cred, e)
    \/ \E cred \in AdminCredentials, e \in ValidEmpIds, e2 \in ValidEmpIds :
           update_employee_by_emp_id_endpoint(cred, e, Only(Body(e2, An, Oslo, NO, now), {"emp_id"}))

\* concurrent creates, with deletes and changes of business id between them
SpecRace == InitRunning /\ [][NextRace]_vars

NextAuth ==
    \/ lifespan
    \/ shutdown
    \/ Tick
    \/ discard
    \/ \E c \in Clients, u \in Usernames, p \in Passwords : login_for_access_token(c, u, p)
    \/ \E c \in Clients, u \in Usernames, p \in Passwords : register_user(c, u, p)
    \/ \E c \in Clients : create_user_commit(c)
    \/ \E cred \in Credentials : get_employee_by_emp_id_endpoint(cred, 1)

\* startup and shutdown, concurrent registration, login, the passage of
\* time, and a read under the credentials a client can hold
SpecAuth == Init /\ [][NextAuth]_vars

NextAll ==
    \/ lifespan
    \/ shutdown
    \/ discard
    \/ \E u \in Usernames, p \in Passwords : login_for_access_token(FirstClient, u, p)
    \/ \E u \in Usernames, p \in Passwords : register_user(FirstClient, u, p)
    \/ create_user_commit(FirstClient)
    \/ \E cred \in Credentials : create_employee_endpoint(FirstClient, cred, OneCreate)
    \/ create_employee_commit(FirstClient)
    \/ \E cred \in Credentials : get_employee_by_emp_id_endpoint(cred, 1)
    \/ \E cred \in Credentials : update_employee_by_emp_id_endpoint(cred, 1, OneUpdate)
    \/ \E cred \in Credentials : delete_employee_by_emp_id_endpoint(cred, 1)

\* every operation of the service from its first start, one request at a
\* time, on one employee
SpecAll == Init /\ [][NextAll]_vars

(* Listing employees (crud.get_all_employees, GET /employees/) *)

\* str.lower / the case folding ILIKE applies, on the letters in use
lower(ch) ==
    CASE ch = "A" -> "a" [] ch = "B" -> "b" [] ch = "I" -> "i" [] ch = "N" -> "n"
      [] ch = "O" -> "o" [] ch = "R" -> "r" [] ch = "S" -> "s" [] ch = "T" -> "t"
      [] OTHER -> ch

lower_text(s) == [i \in 1..Len(s) |-> lower(s[i])]

\* SQL LIKE: % matches any run of characters, _ any one character
RECURSIVE like(_, _)
like(s, pattern) ==
    IF pattern = <<>> THEN s = <<>>
    ELSE IF Head(pattern) = "%"
    THEN like(s, Tail(pattern)) \/ (s # <<>> /\ like(Tail(s), pattern))
    ELSE /\ s # <<>>
         /\ Head(pattern) = "_" \/ Head(pattern) = Head(s)
         /\ like(Tail(s), Tail(pattern))

ilike(s, pattern) == like(lower_text(s), lower_text(pattern))

\* the where clauses: a filter that is None or empty adds none, the others
\* paste the caller's text between two % signs
where_clauses(row, city, country) ==
    /\ city # <<>> => ilike(row.city, <<"%">> \o city \o <<"%">>)
    /\ country # <<>> => ilike(row.country, <<"%">> \o country \o <<"%">>)

\* the attributes of models.Employee that are columns
EmployeeColumns == {"id", "emp_id", "emp_name", "city", "country", "emp_dob"}

\* getattr(Employee, sort_by, Employee.emp_id)
sort_column(sort_by) == IF sort_by \in EmployeeColumns THEN sort_by ELSE "emp_id"

\* the characters in use, in code point order
CharOrder == <<"%", "A", "B", "I", "N", "O", "R", "S", "T", "_",
               "a", "b", "i", "n", "o", "r", "s", "t", "x">>

char_rank(ch) == CHOOSE i \in 1..Len(CharOrder) : CharOrder[i] = ch

RECURSIVE text_less(_, _)
text_less(a, b) ==
    IF b = <<>> THEN FALSE
    ELSE IF a = <<>> THEN TRUE
    ELSE IF Head(a) # Head(b) THEN char_rank(Head(a)) < char_rank(Head(b))
    ELSE text_less(Tail(a), Tail(b))

\* ORDER BY's comparison of two rows on a column
column_less(column, r1, r2) ==
    IF column \in {"id", "emp_id", "emp_dob"}
    THEN r1[column] < r2[column]
    ELSE text_less(r1[column], r2[column])

\* order_by(sort_column.asc()) or .desc(): two rows the column does not
\* tell apart may come out either way round
order_by(s, column, order) ==
    \A i, j \in 1..Len(s) :
        i < j => IF lower_text(order) = lower_text(<<"d", "e", "s", "c">>)
                 THEN ~column_less(column, s[i], s[j])
                 ELSE ~column_less(column, s[j], s[i])

\* the sequences without repetition of the rows of a set
Arrangements(rows) ==
    {s \in [1..Cardinality(rows) -> rows] : \A i, j \in 1..Cardinality(rows) : s[i] = s[j] => i = j}

\* OFFSET offset LIMIT limit
offset_limit(s, offset, limit) ==
    SubSeq(s, offset + 1, IF offset + limit < Len(s) THEN offset + limit ELSE Len(s))

\* the results crud.get_all_employees can return
get_all_employees(db, offset, limit, city, country, sort_by, order) ==
    LET selected == {row \in db : where_clauses(row, city, country)}
    IN {offset_limit(s, offset, limit) :
            s \in {a \in Arrangements(selected) : order_by(a, sort_column(sort_by), order)}}

SortableFields == {"emp_id", "emp_name", "emp_dob", "city", "country"}
SortOrder == {"asc", "desc"}

\* an endpoint that takes sort_by as a plain string
sort_by_unchecked(sort_by) == {}

\* the sort_by parameter is a SortableFields: FastAPI refuses other names
sort_by_errors(sort_by) ==
    IF sort_by \in SortableFields THEN {}
    ELSE {<<"query", "sort_by", "Input should be 'emp_id', 'emp_name', 'emp_dob', 'city' or 'country'">>}

order_errors(order) ==
    IF order \in SortOrder THEN {}
    ELSE {<<"query", "order", "Input should be 'asc' or 'desc'">>}

order_text(order) == IF order = "desc" THEN <<"d", "e", "s", "c">> ELSE <<"a", "s", "c">>

ListResp(cred, status, detail, user, query, errors, stage, body) ==
    [NoResp EXCEPT !.op = "list", !.cred = cred, !.status = status, !.detail = detail,
                   !.user = user, !.query = query, !.errors = errors, !.stage = stage,
                   !.body = body]

\* GET /employees/ : client c's request is answered
get_all_employees_endpoint(c) ==
    /\ started
    /\ pc[c] = "list"
    /\ LET cred == arg[c].cred
           q == arg[c].query
           g == get_current_user(cred, users, now)
           errors == sort_by_errors(q.sort_by) \cup order_errors(q.order)
       IN
       IF g.status # 200
       THEN last' = ListResp(cred, g.status, g.detail, g.user, q, {}, "guard", <<>>)
       ELSE IF errors # {}
       THEN last' = ListResp(cred, 422, "Unprocessable Entity", g.user, q, errors, "validation", <<>>)
       ELSE \E body \in get_all_employees(employees, q.offset, q.limit, q.city, q.country,
                                          q.sort_by, order_text(q.order)) :
                last' = ListResp(cred, 200, "", g.user, q, {}, "handler", body)
    /\ pc' = [pc EXCEPT ![c] = "idle"]
    /\ arg' = [arg EXCEPT ![c] = NoArg]
    /\ UNCHANGED <<started, now, users, employees, tokens>>

\* stored employees to list: ids in order of creation, ties in every text
\* column and in the date of birth, one city with an underscore in it
IT == <<"I", "T">>
O_ == <<"O", "_">>
Pool ==
    { [id |-> 3, emp_id |-> 1, emp_name |-> An, city |-> Oslo, country |-> NO, emp_dob |-> 1],
      [id |-> 1, emp_id |-> 2, emp_name |-> Bo, city |-> Rome, country |-> IT, emp_dob |-> 0],
      [id |-> 2, emp_id |-> 3, emp_name |-> An, city |-> Rome, country |-> NO, emp_dob |-> 1],
      [id |-> 4, emp_id |-> 4, emp_name |-> Bo, city |-> O_, country |-> IT, emp_dob |-> 2] }

CityFilters == {<<>>, <<"O", "S">>, <<"o">>, <<"_">>, <<"%">>}
CountryFilters == {<<>>, <<"n">>}
SortNames == SortableFields \cup {"id", "salary"}
OrderNames == SortOrder \cup {"up"}

Queries ==
    [offset : 0..MaxPage, limit : 0..MaxPage, city : CityFilters, country : CountryFilters,
     sort_by : SortNames, order : OrderNames]

\* the service is up, some employees are stored and one list request is in
InitList ==
    /\ started = TRUE
    /\ now = ACCESS_TOKEN_EXPIRE + 1
    /\ users = BootedUsers
    /\ tokens = { create_access_token([sub |-> "admin"], 0),
                  create_access_token([sub |-> "bob"], ACCESS_TOKEN_EXPIRE + 1) }
    /\ employees \in SUBSET Pool
    /\ pc = [c \in Clients |-> IF c = FirstClient THEN "list" ELSE "idle"]
    /\ \E cred \in {NoToken} \cup ForgedTokens \cup tokens, q \in Queries :
            arg = [c \in Clients |-> IF c = FirstClient
                                     THEN [kind |-> "list", cred |-> cred, query |-> q]
                                     ELSE NoArg]
    /\ last = NoResp

NextList == get_all_employees_endpoint(FirstClient)

SpecList == InitList /\ [][NextList]_vars


---------------------------------------------------------------------------
(* Writes that overlap: crud.update_employee between its two awaits *)

\* the row of the table a session's object stands for: the one with its
\* primary key
row_by_id(db, id) ==
    IF \E r \in db : r.id = id THEN CHOOSE r \in db : r.id = id ELSE NoRow

\* the columns the flush writes: those setattr gave a value other than the
\* loaded one
changed_columns(db_employee, p) ==
    {f \in DOMAIN update_data(p) :
        update_data(p)[f].t = "null" \/ update_data(p)[f].v # db_employee[f]}

\* UPDATE employee SET <changed columns> WHERE id = <db_employee.id>
flush_update(row, db_employee, p) ==
    [f \in DOMAIN row |->
        IF f \in changed_columns(db_employee, p) THEN update_data(p)[f].v ELSE row[f]]

\* the commit or the refresh of update_employee raises: the row is gone
\* (StaleDataError, or nothing to refresh), a column would be NULL, or the
\* new emp_id is another row's
update_commit_fails(db, db_employee, p) ==
    LET row == row_by_id(db, db_employee.id) IN
    \/ row = NoRow
    \/ \E f \in changed_columns(db_employee, p) : update_data(p)[f].t = "null"
    \/ emp_id_taken(db, flush_update(row, db_employee, p))

\* a failed flush that leaves behind the columns it could write
update_partly_flushed(db, db_employee, p) ==
    LET row == row_by_id(db, db_employee.id)
        kept == [f \in DOMAIN row |->
                    IF f \in changed_columns(db_employee, p) \ {"emp_id"}
                       /\ update_data(p)[f].t # "null"
                    THEN update_data(p)[f].v ELSE row[f]]
    IN IF row = NoRow THEN db ELSE (db \ {row}) \cup {kept}

\* the table after a commit that raised: the transaction is rolled back when
\* the flush fails and the session is closed by get_async_session
update_rolled_back(db, db_employee, p) == db

\* PATCH /employees/{emp_id} up to the commit of crud.update_employee: the
\* guard, the validation of the body, the lookup, the setattr loop
update_employee(c, cred, emp_id, p) ==
    /\ started /\ pc[c] = "idle"
    /\ LET g == update_employee_guard(cred, users, now)
           errors == EmployeeUpdate_errors(p, now)
           db_employee == get_employee_by_emp_id(employees, emp_id)
       IN
       IF g.status # 200
       THEN /\ last' = EmpResp("update", cred, g.status, g.detail, g.user, emp_id, p, "guard", <<>>)
            /\ UNCHANGED <<pc, arg>>
       ELSE IF errors # {}
       THEN /\ last' = Unprocessable("update", cred, g.user, emp_id, p, errors)
            /\ UNCHANGED <<pc, arg>>
       ELSE IF db_employee = NoRow
       THEN /\ last' = EmpResp("update", cred, 404, "Employee not found", g.user, emp_id, p,
                               "handler", <<>>)
            /\ UNCHANGED <<pc, arg>>
       ELSE /\ pc' = [pc EXCEPT ![c] = "update_commit"]
            /\ arg' = [arg EXCEPT ![c] = [kind |-> "update", cred |-> cred, emp_id |-> emp_id,
                                          employee |-> p, user |-> g.user,
                                          db_employee |-> db_employee]]
            /\ UNCHANGED last
    /\ UNCHANGED <<started, now, users, employees, tokens>>

\* crud.update_employee from db.add to the return: UPDATE, commit, refresh
update_employee_commit(c) ==
    /\ started /\ pc[c] = "update_commit"
    /\ LET p == arg[c].employee
           db_employee == arg[c].db_employee
           row == row_by_id(employees, db_employee.id)
       IN
       IF update_commit_fails(employees, db_employee, p)
       THEN /\ employees' = update_rolled_back(employees, db_employee, p)
            /\ last' = EmpResp("update", arg[c].cred, InternalServerError.status,
                               InternalServerError.detail, arg[c].user, arg[c].emp_id, p,
                               "commit", <<>>)
       ELSE /\ employees' = (employees \ {row}) \cup {flush_update(row, db_employee, p)}
            /\ last' = EmpResp("update", arg[c].cred, 200, "", arg[c].user, arg[c].emp_id, p,
                               "commit", <<flush_update(row, db_employee, p)>>)
    /\ pc' = [pc EXCEPT ![c] = "idle"]
    /\ arg' = [arg EXCEPT ![c] = NoArg]
    /\ UNCHANGED <<started, now, users, tokens>>

\* update bodies of overlapping writes: a business id, its own or another
\* one, with a new city
WritePayloads ==
    { Only(Body(e, An, Rome, NO, now), {"emp_id", "city"}) : e \in ValidEmpIds }

NextWrites ==
    \/ \E cred \in AdminCredentials, p \in RacePayloads :
           create_employee_endpoint(FirstClient, cred, p)
    \/ create_employee_commit(FirstClient)
    \/ \E c \in Clients, cred \in AdminCredentials, p \in WritePayloads :
           update_employee(c, cred, 1, p)
    \/ \E c \in Clients : update_employee_commit(c)
    \/ \E cred \in AdminCredentials, e \in ValidEmpIds :
           delete_employee_by_emp_id_endpoint(cred, e)

\* an admin's creates (one at a time), updates of employee 1 and deletes,
\* overlapping
SpecWrites == InitRunning /\ [][NextWrites]_vars

---------------------------------------------------------------------------
(* Properties *)

\* the stored employees with business id e
WithEmpId(db, e) == {r \in db : r.emp_id = e}

\* this step is the commit of client c's create
CreateCommitStep(c) ==
    pc[c] = "create_commit" /\ pc'[c] = "idle" /\ last'.op = "create" /\ last'.stage = "commit"

\* C1: whatever the interleaving of creates carrying the same emp_id, a
\* create that reaches its commit succeeds (201) exactly when no employee
\* has that emp_id yet, and then stores exactly one; every other one ends
\* with 409 and stores nothing, never with a generic failure; no two stored
\* employees ever share an emp_id.
C1_ConcurrentCreate ==
    /\ [](\A e \in EmpIds : Cardinality(WithEmpId(employees, e)) <= 1)
    /\ [](last.op = "create" => last.status \in {201, 409})
    /\ [][\A c \in Clients : CreateCommitStep(c) =>
            LET e == arg[c].employee["emp_id"].v IN
            IF WithEmpId(employees, e) = {}
            THEN /\ last'.status = 201
                 /\ Cardinality(WithEmpId(employees', e)) = 1
                 /\ employees \subseteq employees'
                 /\ Cardinality(employees') = Cardinality(employees) + 1
            ELSE /\ last'.status = 409
                 /\ employees' = employees]_vars

\* a create lost the race: it passed its pre-check, another handler still
\* waits to commit the same emp_id, and its own commit answered 409
C1_Witness ==
    /\ last.op = "create" /\ last.stage = "commit" /\ last.status = 409
    /\ Cardinality(WithEmpId(employees, last.emp_id)) = 1
    /\ \E c \in Clients : pc[c] = "create_commit"
                          /\ arg[c].employee["emp_id"].v = last.emp_id

WriteOps == {"create", "update", "delete"}

\* this step completed a request (it wrote the response or the table)
Answered == last' # last \/ employees' # employees

\* C2: a create, update or delete sent by a logged-in non-admin is answered
\* 403 "The user does not have administrative privileges", one sent without
\* a valid token 401; neither changes the stored employees, so every change
\* of the table is the work of a request whose user is an admin.
C2_AdminOnlyWrites ==
    /\ [](last.op \in WriteOps =>
            LET g == get_current_user(last.cred, users, now) IN
            /\ (g.status = 200 /\ ~g.user.is_admin) =>
                  /\ last.status = 403
                  /\ last.detail = "The user does not have administrative privileges"
            /\ g.status # 200 => last.status = 401)
    /\ [][/\ (Answered /\ last'.status \in {401, 403}) => employees' = employees
          /\ employees' # employees =>
                /\ last'.op \in WriteOps
                /\ last'.user \in users /\ last'.user.is_admin]_vars

\* bob, logged in and no admin, asked to change a stored employee and got 403
C2_Witness ==
    /\ last.op = "update" /\ last.status = 403
    /\ last.user.username = "bob" /\ last.user \in users
    /\ get_employee_by_emp_id(employees, last.emp_id) # NoRow

C9_Invalid(p, t) ==
    \/ "emp_id" \in DOMAIN p /\ p["emp_id"].t = "int" /\ p["emp_id"].v < 1
    \/ \E f \in TextFields : f \in DOMAIN p /\ p[f].t = "text" /\ p[f].v = <<>>
    \/ "emp_dob" \in DOMAIN p /\ p["emp_dob"].t = "date" /\ p["emp_dob"].v > t

\* C9: a create body with emp_id below 1, with an empty emp_name, city or
\* country, or born after today is answered 422 (an admin sent it), and a
\* body born today is not rejected for its date.
C9_CreateValidation ==
    /\ (last.op = "create" /\ last.stage # "guard" /\ C9_Invalid(last.payload, now)) =>
            last.status = 422
    /\ (last.op = "create" /\ last.status = 422 /\ "emp_dob" \in DOMAIN last.payload
          /\ last.payload["emp_dob"] = JDate(today(now))) =>
            \A err \in last.errors : err[1] # "emp_dob"

\* C3: every user a registration creates has is_admin = false, and once the
\* service has started the bootstrap account "admin" is the only admin,
\* whatever registrations, logins and employee requests follow.
C3_OnlyBootstrapAdmin ==
    /\ \A u \in users : u.is_admin => u.username = "admin"
    /\ started => {u.username : u \in {v \in users : v.is_admin}} = {"admin"}
    /\ (last.op = "register" /\ last.status = 201) =>
            last.user \in users /\ ~last.user.is_admin

\* bob is registered next to the admin and an employee has been stored
C3_Witness ==
    /\ started
    /\ \E u \in users : u.username = "bob" /\ ~u.is_admin
    /\ employees # {}
    /\ last.op = "register" /\ last.status = 201

\* C4: usernames are unique, and a registration that does not succeed,
\* also one that loses a race after its pre-check passed, ends with 409.
C4_RegistrationConflict ==
    /\ \A u, v \in users : u.username = v.username => u = v
    /\ (last.op = "register" /\ last.status # 201) => last.status = 409

\* the user registered under that name with that password, or NoUser
registered_with(db_users, username, password) ==
    LET u == get_user_by_username(db_users, username) IN
    IF u # NoUser /\ u.hashed_password = get_password_hash(password, u.hashed_password.salt)
    THEN u ELSE NoUser

\* C7: a login with a registered username and its password answers 200 with
\* a token whose subject is that username, and the token, presented before
\* it expires, resolves to the user who logged in; a login with an unknown
\* username or a wrong password answers 401 with no token; a request that
\* gets past the guard runs as the user its token names.
C7_LoginToken ==
    /\ [](last.op = "login" =>
            LET u == registered_with(users, last.username, last.password) IN
            IF u # NoUser
            THEN /\ last.status = 200
                 /\ last.token # NoToken
                 /\ decode_token(last.token, last.token.exp).sub = u.username
                 /\ now <= last.token.exp =>
                        get_current_user(last.token, users, now).user = u
            ELSE last.status = 401 /\ last.token = NoToken)
    /\ [][(last'.op = "login" /\ last'.status = 200 /\ last' # last) =>
            /\ get_current_user(last'.token, users', now').status = 200
            /\ get_current_user(last'.token, users', now').user.username = last'.username
            /\ last'.token \in tokens']_vars
    /\ [](\A t \in tokens : \E u \in users : u.username = t.sub)
    /\ [](last.op = "get" /\ last.status # 401 =>
            last.cred.sig = SECRET_KEY /\ last.user \in users
            /\ last.user.username = last.cred.sub)

\* bob registered, logged in with his password and holds a token that is
\* still good after the clock moved
C7_Witness ==
    /\ last.op = "login" /\ last.status = 200 /\ last.username = "bob"
    /\ now > 0 /\ now <= last.token.exp
    /\ last.token \in tokens

\* sub occurs in s, letter case aside
contains(s, sub) ==
    \E i \in 0..(Len(s) - Len(sub)) :
        SubSeq(lower_text(s), i + 1, i + Len(sub)) = lower_text(sub)

\* the stored employees that match every filter the query supplies
Matching(db, q) ==
    {r \in db : /\ q.city # <<>> => contains(r.city, q.city)
                /\ q.country # <<>> => contains(r.country, q.country)}

\* s runs through rows in the order of column, in the direction asked for
Ordered(s, column, order) ==
    \A i \in 1..(Len(s) - 1) :
        IF order = "desc" THEN ~column_less(column, s[i], s[i + 1])
                          ELSE ~column_less(column, s[i + 1], s[i])

\* a list request answered 200
Listed == last.op = "list" /\ last.status = 200

\* C8: a list answers with exactly the records at positions offset ..
\* offset+limit-1 of the stored employees that contain every supplied filter
\* text (city and country, case aside), ordered by the sort field in the
\* direction asked for; sorted by emp_id ascending, limit 1 and offset 1
\* give the record with the second-smallest emp_id.
C8_ListPage ==
    Listed =>
        LET q == last.query IN
        /\ \E s \in Arrangements(Matching(employees, q)) :
                /\ Ordered(s, q.sort_by, q.order)
                /\ last.body = offset_limit(s, q.offset, q.limit)
        /\ (/\ q.sort_by = "emp_id" /\ q.order = "asc" /\ q.offset = 1 /\ q.limit = 1
            /\ Cardinality(Matching(employees, q)) >= 2) =>
                /\ Len(last.body) = 1
                /\ Cardinality({r \in Matching(employees, q) : r.emp_id < last.body[1].emp_id}) = 1

\* the same statement for filters without the characters % and _
C8_ListPagePlainFilters ==
    (\A i \in 1..Len(last.query.city) : last.query.city[i] \notin {"%", "_"}) => C8_ListPage

\* C10 as stated: a list request with a sort field outside the allow-list
\* does not fail and returns the result ordered by emp_id.
C10_UnknownSortFallsBack ==
    (/\ last.op = "list"
     /\ last.query.sort_by \notin SortableFields
     /\ last.query.order \in SortOrder
     /\ get_current_user(last.cred, users, now).status = 200) =>
        /\ last.status = 200
        /\ Ordered(last.body, "emp_id", last.query.order)

\* C10: a list request with a sort field outside the allow-list is refused
\* with 422 and returns no record (401 when the caller is not authenticated);
\* every list answered 200 is sorted by the allow-listed field it names;
\* the fallback to emp_id is in crud.get_all_employees only, for names that
\* are no column of Employee.
C10_UnknownSortRejected ==
    /\ (last.op = "list" /\ last.query.sort_by \notin SortableFields) =>
            /\ last.status = IF get_current_user(last.cred, users, now).status = 200
                             THEN 422 ELSE 401
            /\ last.body = <<>>
    /\ Listed =>
            /\ last.query.sort_by \in SortableFields
            /\ Ordered(last.body, last.query.sort_by, last.query.order)
    /\ \A name \in SortNames \ EmployeeColumns : sort_column(name) = "emp_id"

\* bob asked for a list sorted by "salary" while employees were stored
C10_Witness ==
    /\ last.op = "list" /\ last.query.sort_by = "salary" /\ last.query.order = "asc"
    /\ last.status = 422 /\ last.user.username = "bob"
    /\ Cardinality(employees) >= 2

\* a write was answered with success
Succeeded(resp) == resp.op \in WriteOps /\ resp.status \in {200, 201, 204}

UpdateCommitStep(c) ==
    pc[c] = "update_commit" /\ pc'[c] = "idle" /\ last'.op = "update" /\ last'.stage = "commit"

\* the update client c is about to commit writes an emp_id that another
\* stored record has
TakesAnothersEmpId(c) ==
    LET e == arg[c].employee["emp_id"].v IN
    /\ "emp_id" \in DOMAIN arg[c].employee
    /\ e # arg[c].db_employee.emp_id
    /\ \E r \in employees : r.id = arg[c].db_employee.id
    /\ \E r \in employees : r.emp_id = e /\ r.id # arg[c].db_employee.id

\* C12: however creates, updates that set emp_id and deletes interleave, no
\* two stored employees have the same emp_id; an update that would give a
\* record the emp_id of another stored record is not answered with success
\* and leaves every record as it was.
C12_UniqueEmpId ==
    /\ [](\A r1, r2 \in employees : r1.emp_id = r2.emp_id => r1 = r2)
    /\ [][\A c \in Clients : (UpdateCommitStep(c) /\ TakesAnothersEmpId(c)) =>
              /\ last'.status # 200
              /\ employees' = employees]_vars

\* employees 1 and 2 are stored, an update of 1 that asked for emp_id 2 was
\* refused at its commit, and another update waits to commit
C12_Witness ==
    /\ last.op = "update" /\ last.stage = "commit" /\ last.status # 200
    /\ last.emp_id = 1 /\ last.payload["emp_id"].v = 2
    /\ {r.emp_id : r \in employees} = {1, 2}
    /\ \E c \in Clients : pc[c] = "update_commit"

====
